---------------------------- MODULE Spec2Model ----------------------------
(***************************************************************************)
(* A model of the toolpath generation core of the slicer:                  *)
(*   - the per-layer pipeline of GCode::do_export / GCode::process_layers  *)
(*     (perimeters -> infill -> speed shaping -> ordered G-code writer,    *)
(*     with cooperative cancellation),                                      *)
(*   - the fill pattern classes of Fill/FillRectilinear.hpp,               *)
(*   - the speed smoothing of GCode::smooth_speed_discontinuity_area,      *)
(*   - the wall generation of PerimeterGenerator::process_classic.         *)
(* Each subsystem has a specification of its own over the shared variable  *)
(* tuple; the variables of the other subsystems stay at their initial      *)
(* values.                                                                  *)
(***************************************************************************)
EXTENDS Integers, Sequences, FiniteSets, TLC

VARIABLES
    \* ---- layer pipeline (GCode.hpp, PerimeterGenerator) ----
    export_state,   \* GCode::do_export: "running", "done", "canceled", "error"
    canceled,       \* the Print's cancel flag polled by throw_if_canceled()
    stage,          \* stage[i]: where the worker of layer i stands
    layer_out,      \* layer_out[i]: the outputs owned by layer i
    slices,         \* slices[i]: the input slices of layer i (read-only)
    config,         \* the Print/PrintObject/PrintRegion configuration (read-only)
    buffer,         \* LayerResults generated and not yet consumed by the writer
    gcode_file,     \* the output stream: its state and the layer_ids written to it
    \* ---- fill patterns (Fill/FillRectilinear.hpp) ----
    fill_class,         \* the dynamic class of the Fill object
    fill_base_angle,    \* Fill::_layer_angle of the base class, per layer index
    fill_angles,        \* fill_angles[idx]: the per-layer angle applied at layer idx, -1 before
    fill_self_crossing, \* the last answer of is_self_crossing()
    fill_consistent,    \* the last answer of has_consistent_pattern()
    \* ---- speed shaping (GCode.hpp) ----
    speed_cfg,      \* the configured maximum speed delta and max_smooth_length
    speed_input,    \* the ExtrusionPaths handed to smooth_speed_discontinuity_area
    speed_paths,    \* the ExtrusionPaths as they are now
    speed_phase,    \* "input", "smoothed" or "merged"
    \* ---- perimeter generator (PerimeterGenerator) ----
    perim_slice,    \* the surface of the slice: its width and height
    perim_cfg,      \* wall count, flow widths and the configured resolution
    m_scaled_resolution, \* PerimeterGenerator::m_scaled_resolution
    perim_loops,    \* Output: the loops, as the inset of each loop's centerline
    perim_gap_fill, \* Output: the slivers too thin for a wall
    perim_fill,     \* Output: the fill surface left over, of no area if none
    perim_phase,    \* "input" or "done"
    \* ---- perimeter regions (PerimeterRegion) ----
    regions_in,     \* the PerimeterRegions handed to merge_compatible_perimeter_regions
    perimeter_regions, \* the PerimeterRegions as they are now
    regions_phase,  \* "input" or "merged"
    \* ---- GCode::LayerToPrint ----
    layer_to_print, \* its object_layer and support_layer
    ltp_print_z,    \* the last answer of print_z()
    ltp_layer,      \* the last answer of layer()
    \* ---- GUI::Selection ----
    m_volumes_set,  \* m_volumes != nullptr
    m_model_set,    \* m_model != nullptr
    m_valid,
    m_list,         \* the indices of the selected volumes
    selected,       \* the volumes whose selected flag is set
    m_mode,         \* "Volume" or "Instance"
    m_type,
    m_cache_content,  \* m_cache.content
    offset_added,   \* what the last operation added to the instance offset of each volume
    sel_call        \* the last operation called, with its arguments

pipeVars == <<export_state, canceled, stage, layer_out, slices, config, buffer, gcode_file>>

fillVars == <<fill_class, fill_base_angle, fill_angles, fill_self_crossing, fill_consistent>>

speedVars == <<speed_cfg, speed_input, speed_paths, speed_phase>>

perimVars ==
    <<perim_slice, perim_cfg, m_scaled_resolution, perim_loops, perim_gap_fill, perim_fill,
      perim_phase>>

regionVars == <<regions_in, perimeter_regions, regions_phase>>

ltpVars == <<layer_to_print, ltp_print_z, ltp_layer>>

selVars == <<m_volumes_set, m_model_set, m_valid, m_list, selected, m_mode, m_type,
             m_cache_content, offset_added, sel_call>>

vars == <<pipeVars, fillVars, speedVars, perimVars, regionVars, ltpVars, selVars>>

\* The variables of the other subsystems, left alone by the actions of one.
notPipeVars == <<fillVars, speedVars, perimVars, regionVars, ltpVars, selVars>>

notFillVars == <<pipeVars, speedVars, perimVars, regionVars, ltpVars, selVars>>

notSpeedVars == <<pipeVars, fillVars, perimVars, regionVars, ltpVars, selVars>>

notPerimVars == <<pipeVars, fillVars, speedVars, regionVars, ltpVars, selVars>>

notRegionVars == <<pipeVars, fillVars, speedVars, perimVars, ltpVars, selVars>>

notLtpVars == <<pipeVars, fillVars, speedVars, perimVars, regionVars, selVars>>

notSelVars == <<pipeVars, fillVars, speedVars, perimVars, regionVars, ltpVars>>

-----------------------------------------------------------------------------
(*                             Layer pipeline                              *)

\* Number of layers of the print (layers_to_print.size()).
NumLayers == 3
\* Size of the worker pool: layers processed at the same time.
MaxWorkers == 2
\* The areas a layer's slices may have, and the wall counts of the configuration.
Areas == {1, 2}
WallLoops == {2}

Layers == 1..NumLayers

\* Stages of one layer's worker, in pipeline order.
InFlight == {"perimeters", "perimeters_done", "infill", "infill_done", "speed"}
Stages == {"pending"} \cup InFlight \cup {"generated", "written", "aborted"}

\* An output collection is empty, being written, or complete.
Progress == {"empty", "partial", "complete"}

\* The outputs of the work on one layer: PerimeterGenerator's loops, gap_fill
\* and fill_surfaces, the fills of the infill engine, the smoothed speeds.
EmptyOut ==
    [loops |-> "empty", gap_fill |-> "empty", fill_surfaces |-> "empty",
     overhang |-> FALSE, fills |-> "empty", speeds |-> "empty"]

\* GCode::LayerResult: the G-code of one layer with its layer_id.
LayerResult(i) == [layer_id |-> i, gcode |-> layer_out[i]]

\* lower_slices of layer i: the slices of the layer below, none for the first.
lower_slices(i) == IF i > 1 THEN slices[i - 1] ELSE 0

PipeInit ==
    /\ export_state = "running"
    /\ canceled = FALSE
    /\ stage = [i \in Layers |-> "pending"]
    /\ layer_out = [i \in Layers |-> EmptyOut]
    /\ slices \in [Layers -> Areas]
    /\ config \in [wall_loops : WallLoops]
    /\ buffer = {}
    /\ gcode_file = [state |-> "open", layers |-> << >>]

\* The layers whose worker is running.
InFlightLayers == {i \in Layers : stage[i] \in InFlight}

\* Dispatch without the poll of the cancel flag.
DispatchUnpolled(i) ==
    /\ export_state = "running"
    /\ stage[i] = "pending"
    /\ \A j \in Layers : j < i => stage[j] # "pending"
    /\ Cardinality({j \in Layers : stage[j] \in InFlight}) < MaxWorkers
    /\ stage' = [stage EXCEPT ![i] = "perimeters"]
    /\ layer_out' = [layer_out EXCEPT ![i].loops = "partial",
                                      ![i].gap_fill = "partial",
                                      ![i].fill_surfaces = "partial"]
    /\ UNCHANGED <<export_state, canceled, slices, config, buffer, gcode_file>>
    /\ UNCHANGED notPipeVars

\* process_layers hands the layers to the worker pool in the order of
\* layers_to_print; print->throw_if_canceled() is polled before each layer.
Dispatch(i) ==
    /\ export_state = "running"
    /\ ~canceled
    /\ stage[i] = "pending"
    /\ \A j \in Layers : j < i => stage[j] # "pending"
    /\ Cardinality(InFlightLayers) < MaxWorkers
    /\ stage' = [stage EXCEPT ![i] = "perimeters"]
    /\ layer_out' = [layer_out EXCEPT ![i].loops = "partial",
                                      ![i].gap_fill = "partial",
                                      ![i].fill_surfaces = "partial"]
    /\ UNCHANGED <<export_state, canceled, slices, config, buffer, gcode_file>>
    /\ UNCHANGED notPipeVars

\* FinishPerimeters writing the fill_surfaces of the layer above as well.
FinishPerimetersUpper(i) ==
    /\ export_state = "running"
    /\ stage[i] = "perimeters"
    /\ stage' = [stage EXCEPT ![i] = "perimeters_done"]
    /\ layer_out' = [j \in Layers |->
            IF j = i THEN [layer_out[j] EXCEPT !.loops = "complete", !.gap_fill = "complete",
                                               !.fill_surfaces = "complete",
                                               !.overhang = (slices[i] > lower_slices(i) /\ i > 1)]
            ELSE IF j = i + 1 THEN [layer_out[j] EXCEPT !.fill_surfaces = "complete"]
            ELSE layer_out[j]]
    /\ UNCHANGED <<export_state, canceled, slices, config, buffer, gcode_file>>
    /\ UNCHANGED notPipeVars

\* PerimeterGenerator::process_classic / process_arachne of layer i returns:
\* it has read slices, lower_slices and the configuration and has filled the
\* loops, gap_fill and fill_surfaces of its own layer.
FinishPerimeters(i) ==
    /\ export_state = "running"
    /\ stage[i] = "perimeters"
    /\ stage' = [stage EXCEPT ![i] = "perimeters_done"]
    /\ layer_out' = [layer_out EXCEPT ![i].loops = "complete",
                                      ![i].gap_fill = "complete",
                                      ![i].fill_surfaces = "complete",
                                      ![i].overhang = (slices[i] > lower_slices(i) /\ i > 1)]
    /\ UNCHANGED <<export_state, canceled, slices, config, buffer, gcode_file>>
    /\ UNCHANGED notPipeVars

\* StartInfill not waiting for the perimeters of the layer to return.
StartInfillEarly(i) ==
    /\ export_state = "running"
    /\ stage[i] \in {"perimeters", "perimeters_done"}
    /\ stage' = [stage EXCEPT ![i] = "infill"]
    /\ layer_out' = [layer_out EXCEPT ![i].fills = "partial"]
    /\ UNCHANGED <<export_state, canceled, slices, config, buffer, gcode_file>>
    /\ UNCHANGED notPipeVars

\* The infill engine starts on the fill_surfaces left by the perimeters.
StartInfill(i) ==
    /\ export_state = "running"
    /\ stage[i] = "perimeters_done"
    /\ stage' = [stage EXCEPT ![i] = "infill"]
    /\ layer_out' = [layer_out EXCEPT ![i].fills = "partial"]
    /\ UNCHANGED <<export_state, canceled, slices, config, buffer, gcode_file>>
    /\ UNCHANGED notPipeVars

FinishInfill(i) ==
    /\ export_state = "running"
    /\ stage[i] = "infill"
    /\ stage' = [stage EXCEPT ![i] = "infill_done"]
    /\ layer_out' = [layer_out EXCEPT ![i].fills = "complete"]
    /\ UNCHANGED <<export_state, canceled, slices, config, buffer, gcode_file>>
    /\ UNCHANGED notPipeVars

\* Speed shaping starts on the ordered extrusion entities of both stages.
StartSpeed(i) ==
    /\ export_state = "running"
    /\ stage[i] = "infill_done"
    /\ stage' = [stage EXCEPT ![i] = "speed"]
    /\ layer_out' = [layer_out EXCEPT ![i].speeds = "partial"]
    /\ UNCHANGED <<export_state, canceled, slices, config, buffer, gcode_file>>
    /\ UNCHANGED notPipeVars

\* The worker of layer i is done: its LayerResult waits for the writer.
FinishSpeed(i) ==
    /\ export_state = "running"
    /\ stage[i] = "speed"
    /\ stage' = [stage EXCEPT ![i] = "generated"]
    /\ layer_out' = [layer_out EXCEPT ![i].speeds = "complete"]
    /\ buffer' = buffer \cup {[layer_id |-> i, gcode |-> layer_out'[i]]}
    /\ UNCHANGED <<export_state, canceled, slices, config, gcode_file>>
    /\ UNCHANGED notPipeVars

\* A worker that polls the cancel flag gives its layer up where it stands.
AbortLayer(i) ==
    /\ export_state = "running"
    /\ canceled
    /\ stage[i] \in InFlight
    /\ stage' = [stage EXCEPT ![i] = "aborted"]
    /\ UNCHANGED <<export_state, canceled, layer_out, slices, config, buffer, gcode_file>>
    /\ UNCHANGED notPipeVars

\* The writer taking whichever result is buffered, with no reordering.
WriteLayerUnordered ==
    /\ export_state = "running"
    /\ \E r \in buffer :
        /\ buffer' = buffer \ {r}
        /\ gcode_file' = [gcode_file EXCEPT !.layers = Append(@, r.layer_id)]
        /\ stage' = [stage EXCEPT ![r.layer_id] = "written"]
    /\ UNCHANGED <<export_state, canceled, layer_out, slices, config>>
    /\ UNCHANGED notPipeVars

\* The layer_id the serial writer consumes next.
NextToWrite == Len(gcode_file.layers) + 1

\* The serial G-code writer takes the result of the next layer_id out of the
\* reordering buffer and writes it to the output stream.
WriteLayer ==
    /\ export_state = "running"
    /\ \E r \in buffer :
        /\ r.layer_id = NextToWrite
        /\ buffer' = buffer \ {r}
        /\ gcode_file' = [gcode_file EXCEPT !.layers = Append(@, r.layer_id)]
        /\ stage' = [stage EXCEPT ![r.layer_id] = "written"]
    /\ UNCHANGED <<export_state, canceled, layer_out, slices, config>>
    /\ UNCHANGED notPipeVars

\* The user cancels the export while it runs.
Cancel ==
    /\ export_state = "running"
    /\ ~canceled
    /\ canceled' = TRUE
    /\ UNCHANGED <<export_state, stage, layer_out, slices, config, buffer, gcode_file>>
    /\ UNCHANGED notPipeVars

\* do_export returns: every layer is written and no cancel is pending.
FinishExport ==
    /\ export_state = "running"
    /\ ~canceled
    /\ \A i \in Layers : stage[i] = "written"
    /\ export_state' = "done"
    /\ gcode_file' = [gcode_file EXCEPT !.state = "closed"]
    /\ UNCHANGED <<canceled, stage, layer_out, slices, config, buffer>>
    /\ UNCHANGED notPipeVars

\* do_export throws CanceledException: the workers have stopped, the results
\* still buffered are dropped and the unfinished output file is removed.
CancelExport ==
    /\ export_state = "running"
    /\ canceled
    /\ InFlightLayers = {}
    /\ export_state' = "canceled"
    /\ buffer' = {}
    /\ gcode_file' = [state |-> "removed", layers |-> << >>]
    /\ UNCHANGED <<canceled, stage, layer_out, slices, config>>
    /\ UNCHANGED notPipeVars

PipeStep ==
    \/ \E i \in Layers : Dispatch(i)
    \/ \E i \in Layers : FinishPerimeters(i)
    \/ \E i \in Layers : StartInfill(i)
    \/ \E i \in Layers : FinishInfill(i)
    \/ \E i \in Layers : StartSpeed(i)
    \/ \E i \in Layers : FinishSpeed(i)
    \/ \E i \in Layers : AbortLayer(i)
    \/ WriteLayer
    \/ Cancel
    \/ FinishExport
    \/ CancelExport

-----------------------------------------------------------------------------
(*                              Fill patterns                              *)

\* Layer indices 0..MaxLayerIdx are filled.
MaxLayerIdx == 3
LayerIdx == 0..MaxLayerIdx

\* The angles, in degrees, the base class may add on a layer.
Angles == {0, 90}

\* The Fill classes declared in FillRectilinear.hpp.
FillClasses ==
    {"FillRectilinear", "FillAlignedRectilinear", "FillMonotonic", "FillMonotonicLine",
     "FillGrid", "FillTriangles", "FillStars", "FillCubic", "FillSupportBase",
     "FillMonotonicLineWGapFill", "FillZigZag", "FillCrossZag", "FillLockedZag"}

\* The base class each class derives from.
BaseClass(c) ==
    IF c \in {"FillRectilinear", "FillMonotonicLineWGapFill"} THEN "Fill" ELSE "FillRectilinear"

\* The overrides of is_self_crossing() with the one of FillCubic left out.
Overrides_is_self_crossing_NoCubic ==
    [c \in {"FillRectilinear", "FillGrid", "FillTriangles", "FillStars",
            "FillMonotonicLineWGapFill"}
        |-> c \in {"FillGrid", "FillTriangles", "FillStars"}]

\* The overrides of has_consistent_pattern() with the one of FillLockedZag left out.
Overrides_has_consistent_pattern_NoLocked == {"FillZigZag", "FillCrossZag"}

\* The overrides of _layer_angle() with the one of FillSupportBase left out.
Overrides_layer_angle_NoSupportBase ==
    {"FillAlignedRectilinear", "FillGrid", "FillTriangles", "FillStars", "FillCubic"}

\* The overrides of _layer_angle() with one added to each zig-zag class.
Overrides_layer_angle_ZigZag ==
    {"FillAlignedRectilinear", "FillGrid", "FillTriangles", "FillStars", "FillCubic",
     "FillSupportBase", "FillZigZag", "FillCrossZag", "FillLockedZag"}

\* The classes that declare an override of is_self_crossing(), with the value
\* the override returns.
Overrides_is_self_crossing ==
    [c \in {"FillRectilinear", "FillGrid", "FillTriangles", "FillStars", "FillCubic",
            "FillMonotonicLineWGapFill"}
        |-> c \in {"FillGrid", "FillTriangles", "FillStars", "FillCubic"}]

\* The classes that declare an override of has_consistent_pattern(); each returns true.
Overrides_has_consistent_pattern == {"FillZigZag", "FillCrossZag", "FillLockedZag"}

\* The classes that declare an override of _layer_angle(); each returns 0.f.
Overrides_layer_angle ==
    {"FillAlignedRectilinear", "FillGrid", "FillTriangles", "FillStars", "FillCubic",
     "FillSupportBase"}

\* Fill::has_consistent_pattern() of the base class: patterns are not
\* consistent unless a class says so.
Fill_has_consistent_pattern == FALSE

\* Fill::_layer_angle(idx) of the base class: the angle varies with the layer index.
Fill_layer_angle(idx) == fill_base_angle[idx]

\* Virtual dispatch: the override of the class itself, else the one inherited
\* from FillRectilinear.
is_self_crossing(c) ==
    IF c \in DOMAIN Overrides_is_self_crossing
    THEN Overrides_is_self_crossing[c]
    ELSE Overrides_is_self_crossing[BaseClass(c)]

has_consistent_pattern(c) ==
    IF c \in Overrides_has_consistent_pattern THEN TRUE
    ELSE IF BaseClass(c) \in Overrides_has_consistent_pattern THEN TRUE
    ELSE Fill_has_consistent_pattern

layer_angle(c, idx) ==
    IF c \in Overrides_layer_angle THEN 0
    ELSE IF BaseClass(c) \in Overrides_layer_angle THEN 0
    ELSE Fill_layer_angle(idx)

NoAnswer == [called |-> FALSE, value |-> FALSE]

\* A Fill object of some class; the base class' per-layer angle is not constant.
FillInit ==
    /\ fill_class \in FillClasses
    /\ fill_base_angle \in {f \in [LayerIdx -> Angles] : \E i, j \in LayerIdx : f[i] # f[j]}
    /\ fill_angles = [idx \in LayerIdx |-> -1]
    /\ fill_self_crossing = NoAnswer
    /\ fill_consistent = NoAnswer

CallIsSelfCrossing ==
    /\ fill_self_crossing' = [called |-> TRUE, value |-> is_self_crossing(fill_class)]
    /\ UNCHANGED <<fill_class, fill_base_angle, fill_angles, fill_consistent>>
    /\ UNCHANGED notFillVars

CallHasConsistentPattern ==
    /\ fill_consistent' = [called |-> TRUE, value |-> has_consistent_pattern(fill_class)]
    /\ UNCHANGED <<fill_class, fill_base_angle, fill_angles, fill_self_crossing>>
    /\ UNCHANGED notFillVars

\* fill_surface on layer idx: the pattern is laid at the angle of that layer.
FillSurface(idx) ==
    /\ fill_angles[idx] = -1
    /\ fill_angles' = [fill_angles EXCEPT ![idx] = layer_angle(fill_class, idx)]
    /\ UNCHANGED <<fill_class, fill_base_angle, fill_self_crossing, fill_consistent>>
    /\ UNCHANGED notFillVars

FillStep ==
    \/ CallIsSelfCrossing
    \/ CallHasConsistentPattern
    \/ \E idx \in LayerIdx : FillSurface(idx)

-----------------------------------------------------------------------------
(*                              Speed shaping                              *)

\* The highest speed of a path, and the most paths in a list.
MaxSpeed == 4
MaxPaths == 3

Speeds == 1..MaxSpeed

\* The most pieces one speed transition is made of.
MaxSteps == MaxSpeed - 1

\* Lengths are whole numbers of a unit fine enough that every piece of a
\* transition is a whole number of units, also in a path split at both ends.
LenUnit == MaxSteps * MaxSteps
Lengths == {LenUnit, 2 * LenUnit}

\* The configured maximum speed delta between adjacent paths.
Deltas == {1, 2}

\* max_smooth_length: shorter than every path, or longer than the short ones.
SmoothLengths == {MaxSteps, LenUnit + MaxSteps}

Abs(x) == IF x < 0 THEN -x ELSE x
Min(a, b) == IF a < b THEN a ELSE b

\* The total length of a list of paths.
RECURSIVE TotalLength(_)
TotalLength(paths) ==
    IF paths = << >> THEN 0 ELSE Head(paths).len + TotalLength(Tail(paths))

\* One piece for a whole transition, whatever the speed difference.
RampStepsSingle(diff, delta) == 2

\* The number of speed steps a transition over a difference of diff is made
\* of, so that no step exceeds delta.
RampSteps(diff, delta) == (diff + delta - 1) \div delta

\* The whole smoothing zone taken off the split path.
BodyLengthLessZone(len, zone, steps) == len - zone

\* What is left of a path of length len once the steps - 1 pieces of a
\* transition have been cut from a zone of it.
BodyLength(len, zone, steps) == len - (steps - 1) * (zone \div steps)

\* mapping_speed: the speed of the k-th piece of a transition of the given
\* number of steps from speed v_from to speed v_to.
mapping_speed(v_from, v_to, k, steps) ==
    IF v_to >= v_from
    THEN v_from + (k * (v_to - v_from)) \div steps
    ELSE v_from - (k * (v_from - v_to)) \div steps

\* The pieces of a transition from v_from to v_to, each of length piece.
Ramp(v_from, v_to, steps, piece) ==
    [k \in 1..(steps - 1) |-> [len |-> piece, speed |-> mapping_speed(v_from, v_to, k, steps)]]

\* split_and_mapping_speed: this_path is split next to a path of speed
\* other_path_v. The transition takes a zone of at most max_smooth_length at
\* the left (split_from_left) or right end of this_path; the rest keeps the
\* speed of this_path.
split_and_mapping_speed(other_path_v, this_path, max_smooth_length, delta, split_from_left) ==
    LET steps == RampSteps(Abs(this_path.speed - other_path_v), delta)
        zone  == Min(this_path.len, max_smooth_length)
        body  == [len |-> BodyLength(this_path.len, zone, steps), speed |-> this_path.speed]
    IN  IF split_from_left
        THEN Ramp(other_path_v, this_path.speed, steps, zone \div steps) \o <<body>>
        ELSE <<body>> \o Ramp(this_path.speed, other_path_v, steps, zone \div steps)

\* merge_same_speed_paths: consecutive paths of the same speed become one.
RECURSIVE merge_same_speed_paths(_)
merge_same_speed_paths(paths) ==
    IF Len(paths) <= 1 THEN paths
    ELSE LET rest == merge_same_speed_paths(Tail(paths))
         IN  IF Head(paths).speed = Head(rest).speed
             THEN <<[len |-> Head(paths).len + Head(rest).len, speed |-> Head(paths).speed]>>
                    \o Tail(rest)
             ELSE <<Head(paths)>> \o rest

\* The walk of set_speed_transition: done is what has been shaped, rest what
\* is still to come. Where the speed changes by more than delta the longer of
\* the two paths is split.
RECURSIVE SpeedWalk(_, _, _)
SpeedWalk(done, rest, cfg) ==
    IF rest = << >> THEN done
    ELSE LET a == done[Len(done)]
             b == Head(rest)
         IN  IF Abs(a.speed - b.speed) <= cfg.delta
             THEN SpeedWalk(Append(done, b), Tail(rest), cfg)
             ELSE IF a.len >= b.len
             THEN SpeedWalk(SubSeq(done, 1, Len(done) - 1)
                                \o split_and_mapping_speed(b.speed, a, cfg.max_smooth_length,
                                                           cfg.delta, FALSE)
                                \o <<b>>,
                            Tail(rest), cfg)
             ELSE SpeedWalk(done \o split_and_mapping_speed(a.speed, b, cfg.max_smooth_length,
                                                            cfg.delta, TRUE),
                            Tail(rest), cfg)

set_speed_transition(paths, cfg) ==
    IF Len(paths) <= 1 THEN paths ELSE SpeedWalk(<<Head(paths)>>, Tail(paths), cfg)

\* The lists of at most MaxPaths paths.
PathLists ==
    UNION {[1..n -> [len : Lengths, speed : Speeds]] : n \in 0..MaxPaths}

SpeedInit ==
    /\ speed_cfg \in [delta : Deltas, max_smooth_length : SmoothLengths]
    /\ speed_input \in PathLists
    /\ speed_paths = speed_input
    /\ speed_phase = "input"

\* smooth_speed_discontinuity_area(paths): the paths are merged by speed and
\* the speed transitions are set, in place.
smooth_speed_discontinuity_area ==
    /\ speed_phase = "input"
    /\ speed_paths' = set_speed_transition(merge_same_speed_paths(speed_paths), speed_cfg)
    /\ speed_phase' = "smoothed"
    /\ UNCHANGED <<speed_cfg, speed_input>>
    /\ UNCHANGED notSpeedVars

-----------------------------------------------------------------------------
(*                           Perimeter generator                           *)

\* The largest side of a slice and the highest wall count.
MaxSide == 16
MaxWalls == 3

\* A slice is a rectangle; sides and widths are in units of half a nozzle step.
Sides == 0..MaxSide
ExtWidths == {2, 4}
PerimeterWidth == 2

\* The configured resolutions and EPSILON, in units of EPSILON.
EPSILON == 1
Resolutions == {-1, 0, 1, 2, 3}

\* scaled<double>(v): v in the scaled coordinates of the polygons.
scaled(v) == v * 100

\* The resolution taken as configured, whatever its sign.
scaled_resolution_unclamped(resolution) == scaled(resolution)

\* The initialiser of m_scaled_resolution in the constructor: a resolution of
\* EPSILON or less is replaced by EPSILON.
scaled_resolution(resolution) == scaled(IF resolution > EPSILON THEN resolution ELSE EPSILON)

\* No polygon taken for degenerate.
is_empty_never(polygon) == FALSE

\* One loop more than configured.
loop_number_extra(cfg) == cfg.wall_loops

\* The index of the innermost loop to generate; loops are counted from 0.
loop_number(cfg) == cfg.wall_loops - 1

\* The inset of the centerline of loop i from the boundary of the slice: half
\* an external width for the outermost loop, then one spacing per loop.
RECURSIVE inset(_, _)
inset(cfg, i) ==
    IF i = 0 THEN cfg.ext_width \div 2
    ELSE IF i = 1 THEN inset(cfg, 0) + (cfg.ext_width + cfg.width) \div 2
    ELSE inset(cfg, i - 1) + cfg.width

\* The slice offset inwards by d; a side of 0 or less is a degenerate result.
offset(slice, d) == [width |-> slice.width - 2 * d, height |-> slice.height - 2 * d]
is_empty(polygon) == polygon.width <= 0 \/ polygon.height <= 0

\* The loops of the slice from loop i on: the walk ends at the first loop
\* that does not fit, or after loop last.
RECURSIVE loops_from(_, _, _, _)
loops_from(slice, cfg, i, last) ==
    IF i > last \/ is_empty(offset(slice, inset(cfg, i))) THEN << >>
    ELSE <<[inset |-> inset(cfg, i), polygon |-> offset(slice, inset(cfg, i))]>>
            \o loops_from(slice, cfg, i + 1, last)

\* What is left inside the innermost loop.
fill_surface(slice, cfg, loops) ==
    IF loops = << >> THEN slice
    ELSE LET inner == offset(slice, loops[Len(loops)].inset + cfg.width \div 2)
         IN  IF is_empty(inner) THEN [width |-> 0, height |-> 0] ELSE inner

\* The slivers left inside the innermost loop where the walls were cut short:
\* too thin for the next wall, they are gap fill and not a fill surface.
gap_fill(slice, cfg, loops) ==
    IF Len(loops) < cfg.wall_loops /\ ~is_empty(fill_surface(slice, cfg, loops))
    THEN <<fill_surface(slice, cfg, loops)>>
    ELSE << >>

\* The PerimeterGenerator as its constructor leaves it.
PerimInit ==
    /\ perim_slice \in [width : Sides, height : Sides]
    /\ perim_cfg \in [wall_loops : 0..MaxWalls, ext_width : ExtWidths, width : {PerimeterWidth},
                       resolution : Resolutions]
    /\ m_scaled_resolution = scaled_resolution(perim_cfg.resolution)
    /\ perim_loops = << >>
    /\ perim_gap_fill = << >>
    /\ perim_fill = [width |-> 0, height |-> 0]
    /\ perim_phase = "input"

\* PerimeterGenerator::process_classic on one slice.
process_classic ==
    /\ perim_phase = "input"
    /\ perim_loops' = IF is_empty(perim_slice) THEN << >>
                      ELSE loops_from(perim_slice, perim_cfg, 0, loop_number(perim_cfg))
    /\ perim_gap_fill' = IF is_empty(perim_slice) THEN << >>
                         ELSE gap_fill(perim_slice, perim_cfg, perim_loops')
    /\ perim_fill' = IF is_empty(perim_slice) \/ perim_gap_fill' # << >>
                     THEN [width |-> 0, height |-> 0]
                     ELSE fill_surface(perim_slice, perim_cfg, perim_loops')
    /\ perim_phase' = "done"
    /\ UNCHANGED <<perim_slice, perim_cfg, m_scaled_resolution>>
    /\ UNCHANGED notPerimVars

-----------------------------------------------------------------------------
(*                            Perimeter regions                            *)

\* The most regions of one layer.
MaxRegions == 3

\* The parameters of a PrintRegionConfig that shape the perimeters.
RegionConfigs == [wall_loops : {1, 2}, width : {2, 4}]

\* A match on the wall count alone.
has_compatible_wall_loops(this_config, other_config) ==
    this_config.wall_loops = other_config.wall_loops

\* PerimeterRegion::has_compatible_perimeter_regions: the two configurations
\* agree in every parameter that shapes the perimeters.
has_compatible_perimeter_regions(this_config, other_config) ==
    /\ this_config.wall_loops = other_config.wall_loops
    /\ this_config.width = other_config.width

\* The regions from the k-th on that go into the entry of the k-th: the run
\* of regions after it that are compatible with it.
RECURSIVE run_end(_, _, _)
run_end(regions, curr, next) ==
    IF next <= Len(regions)
       /\ has_compatible_perimeter_regions(regions[next].config, regions[curr].config)
    THEN run_end(regions, curr, next + 1)
    ELSE next

\* The entry the regions curr .. next - 1 merge to.
merged_entry(regions, curr, next) ==
    [config |-> regions[curr].config,
     expolygons |-> UNION {regions[k].expolygons : k \in curr..(next - 1)}]

RECURSIVE merge_from(_, _)
merge_from(regions, curr) ==
    IF curr > Len(regions) THEN << >>
    ELSE <<merged_entry(regions, curr, run_end(regions, curr, curr + 1))>>
            \o merge_from(regions, run_end(regions, curr, curr + 1))

\* PerimeterRegion::merge_compatible_perimeter_regions.
merge_regions(regions) ==
    IF Len(regions) <= 1 THEN regions ELSE merge_from(regions, 1)

\* The regions of a layer, the k-th with the expolygons of LayerRegion k.
RegionsInit ==
    /\ regions_in \in UNION {
            {[k \in 1..n |-> [config |-> c[k], expolygons |-> {k}]] : c \in [1..n -> RegionConfigs]}
            : n \in 0..MaxRegions}
    /\ perimeter_regions = regions_in
    /\ regions_phase = "input"

merge_compatible_perimeter_regions ==
    /\ regions_phase = "input"
    /\ perimeter_regions' = merge_regions(perimeter_regions)
    /\ regions_phase' = "merged"
    /\ UNCHANGED regions_in
    /\ UNCHANGED notRegionVars

-----------------------------------------------------------------------------
(*                          GCode::LayerToPrint                            *)

\* The highest print_z of a layer.
MaxPrintZ == 10

\* A pointer to a layer: nullptr, or a layer with its print_z.
nullptr == [set |-> FALSE, print_z |-> 0]
LayerPtrs == {nullptr} \cup [set : {TRUE}, print_z : 1..MaxPrintZ]

\* The sum returned as it is.
quotient_undivided(sum_z, count) == [nan |-> FALSE, value |-> sum_z]

\* sum_z / count in floating point: not a number when both are 0.
quotient(sum_z, count) ==
    IF count = 0 THEN [nan |-> TRUE, value |-> 0]
    ELSE [nan |-> FALSE, value |-> sum_z \div count]

\* LayerToPrint::print_z().
print_z(ltp) ==
    LET sum_z == (IF ltp.object_layer.set THEN ltp.object_layer.print_z ELSE 0)
                 + (IF ltp.support_layer.set THEN ltp.support_layer.print_z ELSE 0)
        count == (IF ltp.object_layer.set THEN 1 ELSE 0)
                 + (IF ltp.support_layer.set THEN 1 ELSE 0)
    IN  quotient(sum_z, count)

\* LayerToPrint::layer(): the pointer returned.
layer(ltp) ==
    IF ltp.object_layer.set THEN "object_layer"
    ELSE IF ltp.support_layer.set THEN "support_layer"
    ELSE "nullptr"

\* A LayerToPrint: default constructed, or pairing the object layer and the
\* support layer of one print_z.
LtpInit ==
    /\ layer_to_print \in
            {l \in [object_layer : LayerPtrs, support_layer : LayerPtrs] :
                (l.object_layer.set /\ l.support_layer.set)
                    => l.object_layer.print_z = l.support_layer.print_z}
    /\ ltp_print_z = [called |-> FALSE, nan |-> FALSE, value |-> 0]
    /\ ltp_layer = "uncalled"

CallPrintZ ==
    /\ ~ltp_print_z.called
    /\ ltp_print_z' = [called |-> TRUE, nan |-> print_z(layer_to_print).nan,
                       value |-> print_z(layer_to_print).value]
    /\ UNCHANGED <<layer_to_print, ltp_layer>>
    /\ UNCHANGED notLtpVars

CallLayer ==
    /\ ltp_layer = "uncalled"
    /\ ltp_layer' = layer(layer_to_print)
    /\ UNCHANGED <<layer_to_print, ltp_print_z>>
    /\ UNCHANGED notLtpVars

-----------------------------------------------------------------------------
(*                          GUI::Selection                                 *)

\* Object indices from here on are wipe towers (1000 + plate index).
wipe_tower_object_idx == 1000

\* size_t(-1): the volume is gone.
npos == 0 - 1

\* The most indices in one list of volumes handed to the selection.
MaxIdxs == 1

\* The most instance ids in one list handed to instances_changed.
MaxIds == 3

\* *m_volumes: a part and a modifier of object 0 (one instance), the three
\* instances of the one part of object 1, and the wipe tower of plate 0.
GLVolumes ==
    0 :> [object_idx |-> 0, instance_idx |-> 0, volume_idx |-> 0,
          is_modifier |-> FALSE, is_wipe_tower |-> FALSE, instance_id |-> 1]
    @@ 1 :> [object_idx |-> 0, instance_idx |-> 0, volume_idx |-> 1,
          is_modifier |-> TRUE, is_wipe_tower |-> FALSE, instance_id |-> 1]
    @@ 2 :> [object_idx |-> 1, instance_idx |-> 0, volume_idx |-> 0,
          is_modifier |-> FALSE, is_wipe_tower |-> FALSE, instance_id |-> 2]
    @@ 3 :> [object_idx |-> 1, instance_idx |-> 1, volume_idx |-> 0,
          is_modifier |-> FALSE, is_wipe_tower |-> FALSE, instance_id |-> 3]
    @@ 4 :> [object_idx |-> 1, instance_idx |-> 2, volume_idx |-> 0,
          is_modifier |-> FALSE, is_wipe_tower |-> FALSE, instance_id |-> 4]
    @@ 5 :> [object_idx |-> wipe_tower_object_idx, instance_idx |-> 0, volume_idx |-> 0,
          is_modifier |-> FALSE, is_wipe_tower |-> TRUE, instance_id |-> 0]

\* m_model->objects: the volumes and instances of each object.
ModelObjects ==
    0 :> [volumes |-> 2, instances |-> 1] @@ 1 :> [volumes |-> 1, instances |-> 3]

VolumeIdxs == DOMAIN GLVolumes
ObjectIdxs == {GLVolumes[i].object_idx : i \in VolumeIdxs}
EModes == {"Volume", "Instance"}
FullTypes == {"SingleFullObject", "SingleFullInstance", "MultipleFullInstance", "MultipleFullObject"}

\* The lists of volume indices handed to add_volumes, remove_volumes and
\* set_deserialized: runs of consecutive volumes.
IdxLists == {{i \in VolumeIdxs : from <= i /\ i < from + n} : from \in VolumeIdxs, n \in 0..MaxIdxs}

\* The displacements of a translation, along one axis.
Displacements == {1}

\* The sorted lists of ids of model instances handed to instances_changed.
IdLists ==
    {ids \in UNION {[1..n -> {GLVolumes[i].instance_id :
                                i \in {j \in VolumeIdxs : ~GLVolumes[j].is_wipe_tower}}]
                    : n \in 0..MaxIds} :
        \A k \in 1..Len(ids), l \in 1..Len(ids) : k < l => ids[k] < ids[l]}

\* The maps from old to new volume indices handed to volumes_changed: nothing
\* changed, a volume gone, or the instances of object 1 reordered.
identity_map == [i \in VolumeIdxs |-> i]
VolumeMaps ==
    {identity_map}
    \cup {[identity_map EXCEPT ![k] = npos] : k \in {0, 3}}
    \cup {[identity_map EXCEPT ![2] = 3, ![3] = 2],
          [identity_map EXCEPT ![2] = 3, ![3] = 4, ![4] = 2]}

\* *set.begin(): the least element.
begin(S) == CHOOSE x \in S : \A y \in S : x <= y

\* The selection as an operation finds it; updated tells whether the
\* operation has run update_type.
Self ==
    [m_list |-> m_list, selected |-> selected, m_mode |-> m_mode,
     m_type |-> m_type, content |-> m_cache_content, updated |-> FALSE]

\* m_type = type, the mode as it is.
set_type_keep_mode(type, mode) == [m_type |-> type, m_mode |-> mode]

\* m_type = type.
set_type(type, mode) == [m_type |-> type, m_mode |-> mode]

\* m_type = type; m_mode = Instance.
set_full_type(type, mode) == [m_type |-> type, m_mode |-> "Instance"]

\* Each selected object with the instances of every selected volume, those
\* of the other objects too.
content_of_any_object(list) ==
    [o \in {GLVolumes[i].object_idx : i \in list} |-> {GLVolumes[i].instance_idx : i \in list}]

\* m_cache.content of a list: the selected instances of each selected object.
content_of(list) ==
    [o \in {GLVolumes[i].object_idx : i \in list} |->
        {GLVolumes[i].instance_idx : i \in {j \in list : GLVolumes[j].object_idx = o}}]

RECURSIVE sels_cntr(_)
sels_cntr(keys) ==
    IF keys = {} THEN 0
    ELSE LET key == begin(keys)
             actual_obj_id == IF key >= wipe_tower_object_idx
                              THEN key - wipe_tower_object_idx ELSE key
         IN  ModelObjects[actual_obj_id].volumes * ModelObjects[actual_obj_id].instances
                + sels_cntr(keys \ {key})

\* The type and the mode update_type leaves for a list.
type_of(list, content, mode) ==
    IF ~m_valid THEN set_type("Invalid", mode)
    ELSE IF list = {} THEN set_type("Empty", mode)
    ELSE IF Cardinality(list) = 1 THEN
        LET first == GLVolumes[begin(list)]
        IN  IF first.is_wipe_tower THEN set_type("WipeTower", mode)
            ELSE IF first.is_modifier THEN set_type("SingleModifier", mode)
            ELSE LET volumes_count == ModelObjects[first.object_idx].volumes
                     instances_count == ModelObjects[first.object_idx].instances
                 IN  IF volumes_count * instances_count = 1
                     THEN set_full_type("SingleFullObject", mode)
                     ELSE IF volumes_count = 1
                     THEN set_full_type("SingleFullInstance", mode)
                     ELSE set_type("SingleVolume", mode)
    ELSE
        LET sla_volumes_count == Cardinality({i \in list : GLVolumes[i].volume_idx < 0})
        IN  IF Cardinality(DOMAIN content) = 1 THEN
                LET model_object == ModelObjects[begin(DOMAIN content)]
                    model_volumes_count == model_object.volumes
                    instances_count == model_object.instances
                    selected_instances_count == Cardinality(content[begin(DOMAIN content)])
                IN  IF model_volumes_count * instances_count + sla_volumes_count = Cardinality(list)
                    THEN set_full_type("SingleFullObject", mode)
                    ELSE IF selected_instances_count = 1 THEN
                        IF model_volumes_count + sla_volumes_count = Cardinality(list)
                        THEN set_full_type("SingleFullInstance", mode)
                        ELSE LET modifiers_count == Cardinality({i \in list : GLVolumes[i].is_modifier})
                             IN  IF modifiers_count = 0 THEN set_type("MultipleVolume", mode)
                                 ELSE IF modifiers_count = Cardinality(list)
                                 THEN set_type("MultipleModifier", mode)
                                 ELSE set_type("Mixed", mode)
                    ELSE IF selected_instances_count > 1
                            /\ selected_instances_count * model_volumes_count + sla_volumes_count
                                    = Cardinality(list)
                    THEN set_full_type("MultipleFullInstance", mode)
                    ELSE set_type("Mixed", mode)
            ELSE
                IF sels_cntr(DOMAIN content) + sla_volumes_count = Cardinality(list)
                THEN set_full_type("MultipleFullObject", mode)
                ELSE set_type("Mixed", mode)

\* Selection::update_type.
update_type(s) ==
    LET content == content_of(s.m_list)
        type == type_of(s.m_list, content, s.m_mode)
    IN  [s EXCEPT !.content = content, !.m_type = type.m_type, !.m_mode = type.m_mode,
                  !.updated = TRUE]

is_wipe_tower(s) == s.m_type = "WipeTower"
is_any_modifier(s) == s.m_type \in {"SingleModifier", "MultipleModifier"}
is_any_volume(s) == s.m_type \in {"SingleVolume", "MultipleVolume"}

\* Selection::contains_all_volumes when as_single_selection is not set,
\* Selection::matches when it is: the early return of the add operations.
already_selected(s, volume_idxs, as_single_selection) ==
    IF as_single_selection THEN volume_idxs = s.m_list ELSE volume_idxs \subseteq s.m_list

get_object_idx(s) ==
    IF Cardinality(DOMAIN s.content) = 1 THEN begin(DOMAIN s.content) ELSE 0 - 1

get_instance_idx(s) ==
    IF Cardinality(DOMAIN s.content) = 1
       /\ Cardinality(s.content[begin(DOMAIN s.content)]) = 1
    THEN begin(s.content[begin(DOMAIN s.content)])
    ELSE 0 - 1

get_volume_idxs_from_object(object_idx) ==
    {i \in VolumeIdxs : GLVolumes[i].object_idx = object_idx}

get_volume_idxs_from_instance(object_idx, instance_idx) ==
    {i \in VolumeIdxs : /\ GLVolumes[i].object_idx = object_idx
                        /\ GLVolumes[i].instance_idx = instance_idx}

get_volume_idxs_from_volume(object_idx, instance_idx, volume_idx) ==
    {i \in VolumeIdxs : /\ GLVolumes[i].object_idx = object_idx
                        /\ GLVolumes[i].volume_idx = volume_idx
                        /\ instance_idx # 0 - 1
                        /\ GLVolumes[i].instance_idx = instance_idx}

\* do_add_volume for each index of a list.
do_add_volumes(s, volume_idxs) ==
    [s EXCEPT !.m_list = @ \cup volume_idxs, !.selected = @ \cup volume_idxs]

\* do_remove_volume for each index of a list: those not selected are left.
do_remove_volumes(s, volume_idxs) ==
    [s EXCEPT !.m_list = @ \ volume_idxs,
              !.selected = @ \ (volume_idxs \cap s.m_list)]

\* Selection::clear.
clear(s) ==
    IF s.m_list = {} THEN s
    ELSE update_type([s EXCEPT !.selected = @ \ s.m_list, !.m_list = {}])

\* Selection::add_instance.
add_instance(s, object_idx, instance_idx, as_single_selection) ==
    IF already_selected(s, get_volume_idxs_from_instance(object_idx, instance_idx),
                        as_single_selection)
    THEN s
    ELSE update_type(do_add_volumes(
            [(IF as_single_selection THEN clear(s) ELSE s) EXCEPT !.m_mode = "Instance"],
            get_volume_idxs_from_instance(object_idx, instance_idx)))

\* Selection::add: whether the current list is reset.
needs_reset(s, volume_idx, as_single_selection, already_contained) ==
    LET volume == GLVolumes[volume_idx]
        reset == \/ as_single_selection /\ ~already_contained
                 \/ volume.is_wipe_tower
                 \/ is_wipe_tower(s) /\ ~volume.is_wipe_tower
                 \/ as_single_selection /\ ~is_any_modifier(s) /\ volume.is_modifier
                 \/ is_any_modifier(s) /\ ~volume.is_modifier
    IN  \/ reset
        \/ /\ is_any_modifier(s) \/ is_any_volume(s)
           /\ \/ GLVolumes[begin(s.m_list)].object_idx # volume.object_idx
              \/ GLVolumes[begin(s.m_list)].instance_idx # volume.instance_idx

\* Selection::add, for a value of m_volume_selection_mode.
add_volume_idx(s, volume_idx, as_single_selection, check_for_already_contained, volume_selection_mode) ==
    LET volume == GLVolumes[volume_idx]
        keep_instance_mode == s.m_mode = "Instance" /\ ~as_single_selection
        already_contained == check_for_already_contained /\ volume_idx \in s.m_list
        reset == needs_reset(s, volume_idx, as_single_selection, already_contained)
        cleared == IF reset THEN clear(s) ELSE s
        moded == IF keep_instance_mode THEN cleared
                 ELSE [cleared EXCEPT !.m_mode = IF volume.is_modifier THEN "Volume"
                                                 ELSE volume_selection_mode]
    IN  IF s.m_list # {} /\ ~is_wipe_tower(s) /\ volume.is_wipe_tower /\ ~as_single_selection
        THEN s
        ELSE IF already_contained /\ ~reset THEN s
        ELSE update_type(
            IF moded.m_mode = "Volume"
            THEN IF volume.volume_idx >= 0
                    /\ (moded.m_type = "Empty" \/ volume.instance_idx = get_instance_idx(moded))
                 THEN do_add_volumes(moded, {volume_idx})
                 ELSE moded
            ELSE add_instance(moded, volume.object_idx, volume.instance_idx, as_single_selection))

\* std::upper_bound: the first position of a greater id.
upper_bound(ids, id) ==
    IF \E k \in 1..Len(ids) : ids[k] > id
    THEN CHOOSE k \in 1..Len(ids) : ids[k] > id /\ \A j \in 1..(k - 1) : ~(ids[j] > id)
    ELSE Len(ids) + 1

\* std::lower_bound: the first position of an id not less, or the end.
lower_bound(ids, id) ==
    IF \E k \in 1..Len(ids) : ids[k] >= id
    THEN CHOOSE k \in 1..Len(ids) : ids[k] >= id /\ \A j \in 1..(k - 1) : ~(ids[j] >= id)
    ELSE Len(ids) + 1

\* The old indices that are kept, not moved to the new ones.
list_kept(list, map_volume_old_to_new) ==
    {idx \in list : map_volume_old_to_new[idx] # npos}

\* list_new of Selection::volumes_changed.
list_new(list, map_volume_old_to_new) ==
    {map_volume_old_to_new[idx] : idx \in {i \in list : map_volume_old_to_new[i] # npos}}

\* Selection::is_from_fully_selected_instance.
is_from_fully_selected_instance(volume_idx, assemble_view) ==
    IF m_mode = "Instance" /\ assemble_view THEN TRUE
    ELSE IF volume_idx \notin VolumeIdxs THEN FALSE
    ELSE IF GLVolumes[volume_idx].object_idx \notin DOMAIN ModelObjects THEN FALSE
    ELSE Cardinality({i \in m_list :
                        /\ GLVolumes[i].volume_idx >= 0
                        /\ GLVolumes[i].object_idx = GLVolumes[volume_idx].object_idx
                        /\ GLVolumes[i].instance_idx = GLVolumes[volume_idx].instance_idx})
            = ModelObjects[GLVolumes[volume_idx].object_idx].volumes

\* The volumes Selection::translate(object_idx, displacement) moves: the
\* selected ones of the object, then the unselected ones of the objects of
\* the selected volumes.
translate_moved(object_idx) ==
    {i \in m_list : GLVolumes[i].object_idx = object_idx}
    \cup {j \in VolumeIdxs \ m_list :
            \E i \in m_list : /\ GLVolumes[i].object_idx < wipe_tower_object_idx
                              /\ GLVolumes[j].object_idx = GLVolumes[i].object_idx}

\* No operation called yet.
NoCall ==
    [op |-> "none", recomputed |-> FALSE, map |-> identity_map, ids |-> << >>,
     object_idx |-> 0, displacement |-> 0]

\* A call of an operation that runs update_type.
Call(op) == [NoCall EXCEPT !.op = op, !.recomputed = TRUE]

SelInit ==
    /\ m_volumes_set = FALSE
    /\ m_model_set = FALSE
    /\ m_valid = FALSE
    /\ m_list = {}
    /\ selected = {}
    /\ m_mode = "Instance"
    /\ m_type = "Empty"
    /\ m_cache_content = content_of({})
    /\ offset_added = [i \in VolumeIdxs |-> 0]
    /\ sel_call = NoCall

\* The selection after an operation that left it as s; an operation that
\* returned before update_type has changed nothing.
Becomes(s, call) ==
    /\ m_valid
    /\ \E r \in {s} :
          /\ m_list' = r.m_list
          /\ selected' = r.selected
          /\ m_mode' = r.m_mode
          /\ m_type' = r.m_type
          /\ m_cache_content' = r.content
          /\ sel_call' = IF r.updated THEN call ELSE sel_call
          /\ offset_added' = IF r.updated THEN [i \in VolumeIdxs |-> 0] ELSE offset_added
    /\ UNCHANGED <<m_volumes_set, m_model_set, m_valid>>
    /\ UNCHANGED notSelVars

set_volumes ==
    /\ ~m_volumes_set
    /\ m_volumes_set' = TRUE
    /\ m_valid' = m_model_set
    /\ UNCHANGED <<m_model_set, m_list, selected, m_mode, m_type, m_cache_content,
                   offset_added, sel_call>>
    /\ UNCHANGED notSelVars

set_model ==
    /\ ~m_model_set
    /\ m_model_set' = TRUE
    /\ m_valid' = m_volumes_set
    /\ UNCHANGED <<m_volumes_set, m_list, selected, m_mode, m_type, m_cache_content,
                   offset_added, sel_call>>
    /\ UNCHANGED notSelVars

set_mode ==
    \E mode \in EModes :
        /\ m_mode' = mode
        /\ sel_call' = [NoCall EXCEPT !.op = "set_mode"]
        /\ offset_added' = [i \in VolumeIdxs |-> 0]
        /\ UNCHANGED <<m_volumes_set, m_model_set, m_valid, m_list, selected, m_type,
                       m_cache_content>>
        /\ UNCHANGED notSelVars

add ==
    \E volume_idx \in VolumeIdxs, as_single_selection \in BOOLEAN,
       check_for_already_contained \in BOOLEAN, m_volume_selection_mode \in EModes :
        Becomes(add_volume_idx(Self, volume_idx, as_single_selection,
                               check_for_already_contained, m_volume_selection_mode),
                Call("update"))

remove ==
    \E volume_idx \in m_list :
        Becomes(update_type(
                    IF m_mode = "Volume" THEN do_remove_volumes(Self, {volume_idx})
                    ELSE do_remove_volumes(Self,
                            get_volume_idxs_from_instance(GLVolumes[volume_idx].object_idx,
                                                          GLVolumes[volume_idx].instance_idx))),
                Call("update"))

add_object ==
    \E object_idx \in ObjectIdxs, as_single_selection \in BOOLEAN :
        LET volume_idxs == get_volume_idxs_from_object(object_idx)
        IN  Becomes(IF already_selected(Self, volume_idxs, as_single_selection) THEN Self
                    ELSE update_type(do_add_volumes(
                            [(IF as_single_selection THEN clear(Self) ELSE Self)
                                EXCEPT !.m_mode = "Instance"],
                            volume_idxs)),
                    Call("update"))

remove_object ==
    \E object_idx \in ObjectIdxs :
        Becomes(update_type(do_remove_volumes(Self, get_volume_idxs_from_object(object_idx))),
                Call("update"))

CallAddInstance ==
    \E of \in VolumeIdxs, as_single_selection \in BOOLEAN :
        Becomes(add_instance(Self, GLVolumes[of].object_idx, GLVolumes[of].instance_idx,
                             as_single_selection),
                Call("update"))

remove_instance ==
    \E of \in VolumeIdxs :
        Becomes(update_type(do_remove_volumes(Self,
                    get_volume_idxs_from_instance(GLVolumes[of].object_idx,
                                                  GLVolumes[of].instance_idx))),
                Call("update"))

add_volume ==
    \E of \in VolumeIdxs, any_instance \in BOOLEAN, as_single_selection \in BOOLEAN :
        LET volume_idxs ==
                get_volume_idxs_from_volume(
                    GLVolumes[of].object_idx,
                    IF any_instance THEN 0 - 1 ELSE GLVolumes[of].instance_idx,
                    GLVolumes[of].volume_idx)
        IN  Becomes(IF already_selected(Self, volume_idxs, as_single_selection) THEN Self
                    ELSE update_type(do_add_volumes(
                            [(IF as_single_selection THEN clear(Self) ELSE Self)
                                EXCEPT !.m_mode = "Volume"],
                            volume_idxs)),
                    Call("update"))

\* The volume is removed in every instance of the object.
remove_volume ==
    \E of \in VolumeIdxs :
        Becomes(update_type(do_remove_volumes(Self,
                    {i \in VolumeIdxs : /\ GLVolumes[i].object_idx = GLVolumes[of].object_idx
                                        /\ GLVolumes[i].volume_idx = GLVolumes[of].volume_idx})),
                Call("update"))

add_volumes ==
    \E mode \in EModes, volume_idxs \in IdxLists, as_single_selection \in BOOLEAN :
        Becomes(IF already_selected(Self, volume_idxs, as_single_selection) THEN Self
                ELSE update_type(do_add_volumes(
                        [(IF as_single_selection THEN clear(Self) ELSE Self)
                            EXCEPT !.m_mode = mode],
                        volume_idxs)),
                Call("update"))

remove_volumes ==
    \E mode \in EModes, volume_idxs \in IdxLists :
        Becomes(update_type(do_remove_volumes([Self EXCEPT !.m_mode = mode], volume_idxs)),
                Call("update"))

add_all ==
    Becomes(IF Cardinality(m_list) = Cardinality({i \in VolumeIdxs : ~GLVolumes[i].is_wipe_tower})
            THEN Self
            ELSE update_type(do_add_volumes(clear([Self EXCEPT !.m_mode = "Instance"]),
                                            {i \in VolumeIdxs : ~GLVolumes[i].is_wipe_tower})),
            Call("update"))

remove_all ==
    Becomes(IF m_type = "Empty" THEN Self ELSE clear([Self EXCEPT !.m_mode = "Instance"]),
            Call("update"))

\* The volumes whose geometry_id is listed are selected.
set_deserialized ==
    \E mode \in EModes, volume_idxs \in IdxLists :
        Becomes(update_type(do_add_volumes(
                    [Self EXCEPT !.m_mode = mode, !.selected = @ \ m_list, !.m_list = {}],
                    volume_idxs)),
                Call("update"))

CallClear == Becomes(clear(Self), Call("update"))

\* m_list is cleared, the selected flags are not.
instances_changed ==
    \E instance_ids_selected \in IdLists :
        /\ m_mode = "Instance"
        /\ Becomes(update_type(do_add_volumes([Self EXCEPT !.m_list = {}],
                    {volume_idx \in VolumeIdxs :
                        LET it == lower_bound(instance_ids_selected,
                                              GLVolumes[volume_idx].instance_id)
                        IN  /\ it # Len(instance_ids_selected) + 1
                            /\ instance_ids_selected[it] = GLVolumes[volume_idx].instance_id})),
                   [Call("instances_changed") EXCEPT !.ids = instance_ids_selected])

\* The selected flags of the old indices are left.
volumes_changed ==
    \E map_volume_old_to_new \in VolumeMaps :
        /\ m_mode = "Volume"
        /\ Becomes(update_type(
                    [Self EXCEPT !.m_list = list_new(m_list, map_volume_old_to_new),
                                 !.selected = @ \cup list_new(m_list, map_volume_old_to_new)]),
                   [Call("volumes_changed") EXCEPT !.map = map_volume_old_to_new])

\* Selection::translate(object_idx, displacement).
translate ==
    \E object_idx \in ObjectIdxs, displacement \in Displacements :
        /\ m_valid
        /\ offset_added' =
                [i \in VolumeIdxs |-> IF i \in translate_moved(object_idx)
                                      THEN displacement ELSE 0]
        /\ sel_call' = [NoCall EXCEPT !.op = "translate", !.object_idx = object_idx,
                                      !.displacement = displacement]
        /\ UNCHANGED <<m_volumes_set, m_model_set, m_valid, m_list, selected, m_mode, m_type,
                       m_cache_content>>
        /\ UNCHANGED notSelVars

-----------------------------------------------------------------------------
(*                             Specifications                              *)

\* The state of a subsystem that is not running.
PipeIdle ==
    /\ export_state = "running"
    /\ canceled = FALSE
    /\ stage = [i \in Layers |-> "pending"]
    /\ layer_out = [i \in Layers |-> EmptyOut]
    /\ slices = [i \in Layers |-> 1]
    /\ config = [wall_loops |-> 1]
    /\ buffer = {}
    /\ gcode_file = [state |-> "open", layers |-> << >>]

FillIdle ==
    /\ fill_class = "FillRectilinear"
    /\ fill_base_angle = [idx \in LayerIdx |-> IF idx % 2 = 1 THEN 90 ELSE 0]
    /\ fill_angles = [idx \in LayerIdx |-> -1]
    /\ fill_self_crossing = NoAnswer
    /\ fill_consistent = NoAnswer

SpeedIdle ==
    /\ speed_cfg = [delta |-> 1, max_smooth_length |-> 1]
    /\ speed_input = << >>
    /\ speed_paths = << >>
    /\ speed_phase = "input"

PerimIdle ==
    /\ perim_slice = [width |-> 0, height |-> 0]
    /\ perim_cfg = [wall_loops |-> 0, ext_width |-> 2, width |-> 2, resolution |-> 1]
    /\ m_scaled_resolution = scaled_resolution(1)
    /\ perim_loops = << >>
    /\ perim_gap_fill = << >>
    /\ perim_fill = [width |-> 0, height |-> 0]
    /\ perim_phase = "input"

RegionsIdle ==
    /\ regions_in = << >>
    /\ perimeter_regions = << >>
    /\ regions_phase = "input"

LtpIdle ==
    /\ layer_to_print = [object_layer |-> nullptr, support_layer |-> nullptr]
    /\ ltp_print_z = [called |-> FALSE, nan |-> FALSE, value |-> 0]
    /\ ltp_layer = "uncalled"

\* The layer pipeline of one export.
Init == PipeInit /\ FillIdle /\ SpeedIdle /\ PerimIdle /\ RegionsIdle /\ LtpIdle /\ SelInit

Next == PipeStep

Spec == Init /\ [][Next]_vars

\* The steps of the workers and of the writer: all but the user's Cancel.
PipeProgress ==
    \/ \E i \in Layers : Dispatch(i)
    \/ \E i \in Layers : FinishPerimeters(i)
    \/ \E i \in Layers : StartInfill(i)
    \/ \E i \in Layers : FinishInfill(i)
    \/ \E i \in Layers : StartSpeed(i)
    \/ \E i \in Layers : FinishSpeed(i)
    \/ \E i \in Layers : AbortLayer(i)
    \/ WriteLayer
    \/ FinishExport
    \/ CancelExport

\* The pipeline with its threads scheduled: a worker or the writer that can
\* step does step. Nothing obliges the user to cancel.
FairSpec == Spec /\ WF_vars(PipeProgress)

\* The fill pattern classes.
InitFill == FillInit /\ PipeIdle /\ SpeedIdle /\ PerimIdle /\ RegionsIdle /\ LtpIdle /\ SelInit

NextFill == FillStep

SpecFill == InitFill /\ [][NextFill]_vars

\* The speed shaping of one list of paths.
InitSpeed == SpeedInit /\ PipeIdle /\ FillIdle /\ PerimIdle /\ RegionsIdle /\ LtpIdle /\ SelInit

NextSpeed == smooth_speed_discontinuity_area

SpecSpeed == InitSpeed /\ [][NextSpeed]_vars

\* The perimeter generation of one slice.
InitPerim == PerimInit /\ PipeIdle /\ FillIdle /\ SpeedIdle /\ RegionsIdle /\ LtpIdle /\ SelInit

NextPerim == process_classic

SpecPerim == InitPerim /\ [][NextPerim]_vars

\* The merge of the perimeter regions of one layer.
InitRegions == RegionsInit /\ PipeIdle /\ FillIdle /\ SpeedIdle /\ PerimIdle /\ LtpIdle /\ SelInit

SpecRegions == InitRegions /\ [][merge_compatible_perimeter_regions]_vars

\* The queries on one LayerToPrint.
InitLtp == LtpInit /\ PipeIdle /\ FillIdle /\ SpeedIdle /\ PerimIdle /\ RegionsIdle /\ SelInit

NextLtp == CallPrintZ \/ CallLayer

SpecLtp == InitLtp /\ [][NextLtp]_vars

\* The operations on one selection.
InitSel == SelInit /\ PipeIdle /\ FillIdle /\ SpeedIdle /\ PerimIdle /\ RegionsIdle /\ LtpIdle

NextSel ==
    \/ set_volumes \/ set_model \/ set_mode
    \/ add \/ remove
    \/ add_object \/ remove_object
    \/ CallAddInstance \/ remove_instance
    \/ add_volume \/ remove_volume
    \/ add_volumes \/ remove_volumes
    \/ add_all \/ remove_all
    \/ set_deserialized \/ CallClear
    \/ instances_changed \/ volumes_changed
    \/ translate

SpecSel == InitSel /\ [][NextSel]_vars



-----------------------------------------------------------------------------
(*                         Claims: layer pipeline                          *)

\* The worker of layer i has generated the layer's result.
Generated(i) == layer_out[i].speeds = "complete"

\* How often layer_id i stands in the output stream.
Occurrences(i) ==
    Cardinality({k \in DOMAIN gcode_file.layers : gcode_file.layers[k] = i})

\* The layer_ids in the output stream ascend strictly, and none is written
\* before a lower one.
WrittenInOrder ==
    /\ \A k, l \in DOMAIN gcode_file.layers :
            k < l => gcode_file.layers[k] < gcode_file.layers[l]
    /\ \A k \in DOMAIN gcode_file.layers : \A j \in Layers :
            j < gcode_file.layers[k] => \E m \in 1..(k - 1) : gcode_file.layers[m] = j

-----------------------------------------------------------------------------
(*                          Claims: fill patterns                          *)

\* C5 as stated: is_self_crossing() returns true for the grid, triangles,
\* stars, cubic and support-base patterns and false for the rectilinear,
\* monotonic and monotonic-line patterns.
C5_SelfCrossingWithSupportBase ==
    fill_self_crossing.called =>
        /\ fill_class \in {"FillGrid", "FillTriangles", "FillStars", "FillCubic",
                           "FillSupportBase"} => fill_self_crossing.value
        /\ fill_class \in {"FillRectilinear", "FillMonotonic", "FillMonotonicLine"}
                => ~fill_self_crossing.value

\* C5 amended: is_self_crossing() returns true for the grid, triangles, stars
\* and cubic patterns, and false for the rectilinear, monotonic,
\* monotonic-line and support-base patterns.
C5_SelfCrossingByOverride ==
    fill_self_crossing.called =>
        /\ fill_class \in {"FillGrid", "FillTriangles", "FillStars", "FillCubic"}
                => fill_self_crossing.value
        /\ fill_class \in {"FillRectilinear", "FillMonotonic", "FillMonotonicLine",
                           "FillSupportBase"} => ~fill_self_crossing.value

\* is_self_crossing() was called on a FillSupportBase.
C5_Witness == fill_self_crossing.called /\ fill_class = "FillSupportBase"

\* C6: has_consistent_pattern() returns true for FillZigZag, FillCrossZag and
\* FillLockedZag.
C6_ZagsConsistent ==
    (fill_consistent.called /\ fill_class \in {"FillZigZag", "FillCrossZag", "FillLockedZag"})
        => fill_consistent.value

\* has_consistent_pattern() was called on a FillLockedZag.
C6_Witness == fill_consistent.called /\ fill_class = "FillLockedZag"

-----------------------------------------------------------------------------
(*                          Claims: speed shaping                          *)

-----------------------------------------------------------------------------
(*                       Claims: perimeter generator                       *)

\* The slice is large enough for n walls: the innermost of them is not
\* degenerate.
Fits(slice, cfg, n) == n = 0 \/ ~is_empty(offset(slice, inset(cfg, n - 1)))

-----------------------------------------------------------------------------
(*                        Claims: perimeter regions                        *)

-----------------------------------------------------------------------------
(*                       Claims: GCode::LayerToPrint                       *)

\* C14: for a LayerToPrint with object_layer or support_layer set, print_z()
\* returns the print_z of the single layer when one is set and the print_z
\* common to both when both are set.
C14_PrintZOfPair ==
    (ltp_print_z.called /\ (layer_to_print.object_layer.set \/ layer_to_print.support_layer.set))
        => /\ ~ltp_print_z.nan
           /\ layer_to_print.object_layer.set
                => ltp_print_z.value = layer_to_print.object_layer.print_z
           /\ layer_to_print.support_layer.set
                => ltp_print_z.value = layer_to_print.support_layer.print_z

\* print_z() was called on a LayerToPrint that pairs an object layer and a
\* support layer.
C14_Witness ==
    /\ ltp_print_z.called
    /\ layer_to_print.object_layer.set
    /\ layer_to_print.support_layer.set

-----------------------------------------------------------------------------
(*                     Claims: Fill patterns, layer angle                  *)

\* C21: _layer_angle(idx) is 0 on every layer index for the aligned
\* rectilinear, grid, triangles, stars, cubic and support-base patterns:
\* each layer these patterns fill is laid at the same angle.
C21_FixedAngleOnAllLayers ==
    fill_class \in {"FillAlignedRectilinear", "FillGrid", "FillTriangles", "FillStars",
                    "FillCubic", "FillSupportBase"}
        => /\ \A idx \in LayerIdx : fill_angles[idx] # -1 => fill_angles[idx] = 0
           /\ \A idx \in LayerIdx : layer_angle(fill_class, idx) = 0

\* The support-base pattern has filled every layer at angle 0, on layers
\* where the angle of the base class is not 0.
C21_Witness ==
    /\ fill_class = "FillSupportBase"
    /\ \A idx \in LayerIdx : fill_angles[idx] = 0
    /\ \E idx \in LayerIdx : Fill_layer_angle(idx) # 0

-----------------------------------------------------------------------------
(*                         Claims: GUI::Selection                          *)

\* C15: the wipe tower is always alone in the selection: on a valid
\* selection, after any sequence of the selection operations, a selection
\* list that contains a wipe-tower volume contains exactly one volume.
C15_WipeTowerAlone ==
    (m_valid /\ \E i \in m_list : GLVolumes[i].is_wipe_tower) => Cardinality(m_list) = 1

\* The wipe tower is selected alone, and the type says so.
C15_Witness ==
    /\ m_valid
    /\ \E i \in m_list : GLVolumes[i].is_wipe_tower
    /\ Cardinality(m_list) = 1
    /\ m_type = "WipeTower"

\* C16: the assertion of translate(displacement, type) and of
\* rotate(rotation, type) holds in every state the selection operations
\* reach: when the mode is Instance and the selection is not the wipe tower,
\* every selected volume is from a fully selected instance.
C16_AssertionHolds ==
    (m_valid /\ m_mode = "Instance" /\ ~is_wipe_tower(Self))
        => \A i \in m_list : is_from_fully_selected_instance(i, FALSE)

\* In Instance mode, all the volumes of the selected instances are selected.
C16_Witness ==
    /\ m_valid
    /\ m_mode = "Instance"
    /\ m_type = "SingleFullObject"
    /\ m_list = {0, 1}
    /\ \A i \in m_list : is_from_fully_selected_instance(i, FALSE)

\* C17: right after an operation that recomputes the selection type, a type of
\* SingleFullObject, SingleFullInstance, MultipleFullInstance or
\* MultipleFullObject comes with the mode Instance.
C17_FullTypeInstanceMode ==
    (sel_call.recomputed /\ m_type \in FullTypes) => m_mode = "Instance"

\* The type was recomputed to that of two of the three instances of an object.
C17_Witness ==
    /\ sel_call.recomputed
    /\ m_type = "MultipleFullInstance"
    /\ m_mode = "Instance"

\* C18: translate(object_idx, displacement) adds the displacement exactly
\* once to the instance offset of each volume of the object object_idx,
\* selected or not, and leaves the offset of the volumes of every other
\* object as it was.
C18_TranslateMovesTheObject ==
    sel_call.op = "translate"
        => \A i \in VolumeIdxs :
              offset_added[i] = IF GLVolumes[i].object_idx = sel_call.object_idx
                                THEN sel_call.displacement ELSE 0

\* translate was called for an object all of whose volumes are selected, and
\* moved them.
C18_Witness ==
    /\ sel_call.op = "translate"
    /\ sel_call.object_idx = 0
    /\ m_list = {0, 1}
    /\ \A i \in m_list : offset_added[i] = sel_call.displacement

\* C19: after volumes_changed(map) the selection list is the set of map[i]
\* for the i selected before the call with map[i] # -1; each of these
\* volumes is flagged selected, and there are no more selected volumes than
\* before.
C19_VolumesChanged ==
    [][sel_call'.op = "volumes_changed"
        => /\ m_list' = {sel_call'.map[i] : i \in {j \in m_list : sel_call'.map[j] # npos}}
           /\ m_list' \subseteq selected'
           /\ Cardinality(m_list') <= Cardinality(m_list)]_vars

\* volumes_changed was called with a map that moves volume 2 to index 3, and
\* left volume 3 selected and volume 2 not.
C19_Witness ==
    /\ sel_call.op = "volumes_changed"
    /\ sel_call.map[2] = 3
    /\ 3 \in m_list
    /\ 2 \notin m_list

\* C20: after instances_changed(ids) with a sorted list of ids, the selection
\* list is the set of the volumes whose instance id (geometry_id.second) is
\* in ids, whatever was selected before the call.
C20_InstancesChanged ==
    sel_call.op = "instances_changed"
        => m_list = {i \in VolumeIdxs :
                        \E k \in 1..Len(sel_call.ids) : sel_call.ids[k] = GLVolumes[i].instance_id}

\* instances_changed was called with two ids, the second that of both volumes
\* of an instance, and selected the volumes of the two.
C20_Witness ==
    /\ sel_call.op = "instances_changed"
    /\ Len(sel_call.ids) = 2
    /\ Cardinality(m_list) = 3

\* C22: on a valid selection over a fixed list of volumes, each of add,
\* remove, add_object, remove_object, add_instance, remove_instance,
\* add_volume, remove_volume, add_volumes, remove_volumes, add_all,
\* remove_all, clear, set_deserialized and instances_changed keeps the flags
\* and the list in step: a volume is flagged selected if and only if its
\* index is in the selection list. volumes_changed, which is called after the
\* list of volumes changed, is the one operation left out.
C22_SelectedFlagIffListed ==
    [][(m_valid /\ selected = m_list /\ sel_call'.op # "volumes_changed")
        => selected' = m_list']_vars

\* instances_changed has rebuilt the list: every listed volume is flagged,
\* and a volume that is no longer listed is flagged still.
C22_Witness ==
    /\ m_valid
    /\ sel_call.op = "instances_changed"
    /\ m_list \subseteq selected
    /\ \E i \in VolumeIdxs : i \in selected /\ i \notin m_list

\* C23: the cached content map holds exactly the (object index, instance
\* index) pairs of the volumes in the selection list; so get_object_idx()
\* is o when the selection is not empty and every selected volume is of
\* object o, and -1 otherwise, and the type is Empty exactly when the list is
\* empty.
C23_ContentOfTheList ==
    /\ UNION {{<<o, i>> : i \in m_cache_content[o]} : o \in DOMAIN m_cache_content}
            = {<<GLVolumes[v].object_idx, GLVolumes[v].instance_idx>> : v \in m_list}
    /\ \A o \in DOMAIN m_cache_content : m_cache_content[o] # {}
    /\ \A o \in ObjectIdxs \cup {wipe_tower_object_idx} :
            get_object_idx(Self) = o
                <=> (m_list # {} /\ \A v \in m_list : GLVolumes[v].object_idx = o)
    /\ get_object_idx(Self) \in ObjectIdxs \cup {wipe_tower_object_idx, 0 - 1}
    /\ m_type = "Empty" <=> m_list = {}

\* An operation left volumes of two objects selected, in different
\* instances: the content has both objects and get_object_idx() is -1.
C23_Witness ==
    /\ sel_call.recomputed
    /\ {0, 3} \subseteq m_list
    /\ m_cache_content[0] = {0}
    /\ 1 \in m_cache_content[1]
    /\ get_object_idx(Self) = 0 - 1

=============================================================================
